---------------------------- MODULE Spec2Model ----------------------------
(***************************************************************************)
(* Model of the starboard archiver (src/src/index.ts).                     *)
(*                                                                         *)
(* Strings are modelled as sequences of tokens: a token is either one of   *)
(* the delimiter characters the program splits or matches on ("/", ".",    *)
(* "?", ":large", "**", the star glyph) or a word without delimiters.      *)
(* JavaScript's undefined and null are the one-token strings Undefined and *)
(* Null, so that every value of a list has the same shape.                 *)
(***************************************************************************)
EXTENDS Integers, Sequences, FiniteSets, TLC

VARIABLES
    history,          \* the channel's messages, oldest first (the data source)
    world,            \* what a cross-reference fetch of a permalink returns
    channelOk,        \* whether the configured channel is a text channel
    startingMessageId,\* STARBOARD_STARTING_MESSAGE_SNOWFLAKE
    disk,             \* outDir/metadata.json
    files,            \* the files written under outDir/downloadsDir
    messages,         \* the Map<string, MessageArchive>, in insertion order
    pc,               \* where the ready handler is
    messageId,        \* the cursor of the history walk
    fetchedMessages,  \* the page being iterated (after reverse())
    idx,              \* position of the page iterator
    cur,              \* the message processMessage is working on
    archiveId,        \* processMessage's archiveId
    textContent,      \* processMessage's textContent
    attachmentUrls,   \* getAttachments' attachmentUrls
    attachments,      \* processMessage's attachments
    attachmentNumber, \* downloadAttachments' loop position
    writes,           \* the fs.writeFile calls on metadata.json in flight
    uuids,            \* how many uuidV4() were drawn
    sigints,          \* how many SIGINTs were delivered
    classified,       \* log: the messages handed to isStarboardMessage, in order
    fetches           \* log: the cursor of every history fetch, in order

vars == <<history, world, channelOk, startingMessageId, disk, files, messages,
          pc, messageId, fetchedMessages, idx, cur, archiveId, textContent,
          attachmentUrls, attachments, attachmentNumber, writes, uuids,
          sigints, classified, fetches>>

-----------------------------------------------------------------------------
(* Bounds of the model *)

MaxMessages == 3
MaxSigints == 1
MaxHops == 3
MaxParts == 2

-----------------------------------------------------------------------------
(* JavaScript values and string primitives *)

Undefined == <<"#undefined">>
Null == <<"#null">>

Last(s) == s[Len(s)]

\* String.prototype.startsWith
StartsWith(s, prefix) ==
    /\ Len(s) >= Len(prefix)
    /\ SubSeq(s, 1, Len(prefix)) = prefix

\* String.prototype.endsWith for a one-token suffix
EndsWith(s, tok) == Len(s) > 0 /\ Last(s) = tok

\* String.prototype.split(sep): the pieces between the occurrences of sep
RECURSIVE Split(_, _)
Split(s, sep) ==
    IF \A i \in 1..Len(s) : s[i] # sep
    THEN <<s>>
    ELSE LET k == CHOOSE i \in 1..Len(s) :
                      /\ s[i] = sep
                      /\ \A j \in 1..(i - 1) : s[j] # sep
         IN  <<SubSeq(s, 1, k - 1)>> \o Split(SubSeq(s, k + 1, Len(s)), sep)

\* Array.prototype.flat (depth 1) of an array of arrays
RECURSIVE Flat(_)
Flat(ss) == IF ss = <<>> THEN <<>> ELSE Head(ss) \o Flat(Tail(ss))

\* Array.prototype.join
RECURSIVE Join(_, _)
Join(ss, sep) ==
    IF ss = <<>> THEN <<>>
    ELSE IF Len(ss) = 1 THEN Head(ss)
    ELSE Head(ss) \o <<sep>> \o Join(Tail(ss), sep)

SeqUpTo(S, n) == UNION {[1..k -> S] : k \in 0..n}

Range(s) == {s[i] : i \in 1..Len(s)}

-----------------------------------------------------------------------------
(* Tokens and URL prefixes the program matches on *)

Slash == "/"
Dot == "."
Query == "?"
Large == ":large"
Star == "<star> "
Bold == "**"
BlankLine == "\\n\\n"

\* 'https://discord.com/channels' (lines 139, 212)
PermalinkPrefix == <<"https:", Slash, Slash, "discord", Dot, "com", Slash, "channels">>
\* 'https://cdn.discordapp.com' (lines 227, 234)
CdnPrefix == <<"https:", Slash, Slash, "cdn", Dot, "discordapp", Dot, "com">>
\* 'https://media.discordapp.net' (lines 228, 235)
MediaPrefix == <<"https:", Slash, Slash, "media", Dot, "discordapp", Dot, "net">>

\* the decimal strings the model's message bodies carry, with parseInt's value
DigitVal == [d \in {"0", "5", "7"} |-> CASE d = "0" -> 0 [] d = "5" -> 5 [] d = "7" -> 7]
ParseInt(tok) == DigitVal[tok]

-----------------------------------------------------------------------------
(* Message Classifier *)

isStarboardMessage(message) ==
    StartsWith(message.content, <<Star, Bold>>) /\ message.author.bot

\* where starCountRegex matches in a body: star glyph, "**", digits, "**"
StarMatches(content) ==
    {i \in 1..(Len(content) - 3) :
        /\ content[i] = Star
        /\ content[i + 1] = Bold
        /\ content[i + 2] \in DOMAIN DigitVal
        /\ content[i + 3] = Bold}

getStars(message) ==
    LET match == StarMatches(message.content)
    IN  IF match # {}
        THEN ParseInt(message.content[(CHOOSE i \in match : \A j \in match : i <= j) + 2])
        ELSE 0

getTextContent(message) ==
    LET descriptions == [i \in 1..Len(message.embeds) |->
                            IF message.embeds[i].description = Null
                            THEN <<>>
                            ELSE message.embeds[i].description]
        embedDescriptions == Join(descriptions, BlankLine)
    IN  IF Len(embedDescriptions) > 0 THEN embedDescriptions ELSE Undefined

-----------------------------------------------------------------------------
(* Attachment Resolver *)

\* the urls of the link buttons of a message's action rows, in component
\* order: the flatMap/filter/map both resolvers start from (lines 129-147
\* and 202-220) without their startsWith test
RowButtonUrls(row) ==
    IF row.type = "ActionRow"
    THEN LET kept == SelectSeq(row.components,
                        LAMBDA c : c.type = "Button" /\ c.url # Null)
         IN  [i \in 1..Len(kept) |-> kept[i].url]
    ELSE <<>>

ButtonUrls(message) ==
    Flat([i \in 1..Len(message.components) |-> RowButtonUrls(message.components[i])])

IsPermalink(url) == StartsWith(url, PermalinkPrefix)

\* a variant that knows only the first of the two content-delivery prefixes
IsCdnFirstOnly(url) == StartsWith(url, CdnPrefix)

IsCdn(url) == StartsWith(url, CdnPrefix) \/ StartsWith(url, MediaPrefix)

\* getAdvancedAttachments' messageLinks
MessageLinks(message) == SelectSeq(ButtonUrls(message), IsPermalink)

\* getAttachmentUrls' buttonLinks as first computed
ButtonLinks(message) == SelectSeq(ButtonUrls(message), LAMBDA u : ~IsPermalink(u))

\* client.channels.fetch(channelId) then channel.messages.fetch(messageId)
\* for a permalink: status is "channelThrows", "notText", "messageThrows" or
\* "ok" (then msg is the message). A link the data source does not know, or
\* one without both ids, makes the channel fetch throw.
NoMessage ==
    [id |-> 0, author |-> [bot |-> FALSE], content |-> <<>>, url |-> <<>>,
     attachments |-> <<>>, embeds |-> <<>>, components |-> <<>>]

FetchLink(w, link) ==
    LET splitLink == Split(link, Slash)
    IN  IF Len(splitLink) < 7
        THEN [status |-> "channelThrows", msg |-> NoMessage]
        ELSE LET channelId == splitLink[6]
                 msgId == splitLink[7]
             IN  IF <<channelId, msgId>> \in DOMAIN w
                 THEN w[<<channelId, msgId>>]
                 ELSE [status |-> "channelThrows", msg |-> NoMessage]

\* a resolution that never returns: the await chain of a cross-reference
\* cycle goes on fetching for ever
Hang == << <<"#hang">> >>

EmbedUrls(message, field) ==
    LET urls == [i \in 1..Len(message.embeds) |-> message.embeds[i][field]]
    IN  SelectSeq(urls, LAMBDA u : u # Undefined)

RECURSIVE getAttachmentUrls(_, _, _)

\* a variant that catches each link's failure on its own and keeps what the
\* other links gave
getAdvancedAttachmentsPerLink(message, w, depth) ==
    LET messageLinks == MessageLinks(message)
        fetched == [i \in 1..Len(messageLinks) |-> FetchLink(w, messageLinks[i])]
    IN  IF depth = 0 /\ \E i \in 1..Len(fetched) : fetched[i].status = "ok"
        THEN Hang
        ELSE LET each == [i \in 1..Len(fetched) |->
                            IF fetched[i].status = "ok"
                            THEN getAttachmentUrls(fetched[i].msg, w, depth - 1)
                            ELSE IF fetched[i].status = "notText"
                            THEN <<Undefined>>
                            ELSE <<>>]
             IN  IF \E i \in 1..Len(each) : each[i] = Hang
                 THEN Hang
                 ELSE Flat(each)

\* depth is how many more hops the model follows before it calls the
\* resolution a Hang
getAdvancedAttachments(message, w, depth) ==
    LET messageLinks == MessageLinks(message)
        fetched == [i \in 1..Len(messageLinks) |-> FetchLink(w, messageLinks[i])]
    IN  IF \E i \in 1..Len(fetched) :
               fetched[i].status \in {"channelThrows", "messageThrows"}
        THEN <<>>                        \* the catch of lines 178-183
        ELSE IF depth = 0 /\ \E i \in 1..Len(fetched) : fetched[i].status = "ok"
        THEN Hang
        ELSE LET each == [i \in 1..Len(fetched) |->
                            IF fetched[i].status = "ok"
                            THEN getAttachmentUrls(fetched[i].msg, w, depth - 1)
                            ELSE <<Undefined>>]  \* kept by filter(x !== null)
             IN  IF \E i \in 1..Len(each) : each[i] = Hang
                 THEN Hang
                 ELSE Flat(each)

\* a variant that spreads the button links before the embed media
getAttachmentUrlsButtonsFirst(message, w, depth) ==
    LET buttonLinks == ButtonLinks(message)
        advanced == \E i \in 1..Len(buttonLinks) : IsCdn(buttonLinks[i])
        keptLinks == IF advanced
                     THEN SelectSeq(buttonLinks, LAMBDA u : ~IsCdn(u))
                     ELSE buttonLinks
        advancedAttachments == IF advanced
                               THEN getAdvancedAttachments(message, w, depth)
                               ELSE <<>>
    IN  IF advancedAttachments = Hang
        THEN Hang
        ELSE message.attachments \o keptLinks \o EmbedUrls(message, "image")
                 \o EmbedUrls(message, "video") \o advancedAttachments

getAttachmentUrls(message, w, depth) ==
    LET directAttachments == message.attachments
        embedImages == EmbedUrls(message, "image")
        embedVideos == EmbedUrls(message, "video")
        buttonLinks == ButtonLinks(message)
        advanced == \E i \in 1..Len(buttonLinks) : IsCdn(buttonLinks[i])
        keptLinks == IF advanced
                     THEN SelectSeq(buttonLinks, LAMBDA u : ~IsCdn(u))
                     ELSE buttonLinks
        advancedAttachments == IF advanced
                               THEN getAdvancedAttachments(message, w, depth)
                               ELSE <<>>
    IN  IF advancedAttachments = Hang
        THEN Hang
        ELSE directAttachments \o embedImages \o embedVideos \o keptLinks
                 \o advancedAttachments

-----------------------------------------------------------------------------
(* Archive Record Builder *)

\* attachment.split('.').pop()?.split('?')[0]
RawExt(url) == Split(Last(Split(url, Dot)), Query)[1]

\* the extension after the ':large' strip of lines 264-266
ExtOf(url) ==
    LET ext == RawExt(url)
    IN  IF EndsWith(ext, Large) THEN SubSeq(ext, 1, Len(ext) - 1) ELSE ext

\* `${archiveId}_${stars}-stars_${attachmentNumber}.${ext}`
LocalFile(id, stars, n, ext) ==
    [archiveId |-> id, stars |-> stars, part |-> <<"attachment", n>>, ext |-> ext]

\* `${archiveId}_${stars}-stars_textcontent.txt`
TextFile(id, stars) ==
    [archiveId |-> id, stars |-> stars, part |-> <<"textcontent", 0>>, ext |-> <<"txt">>]

\* the loop of getAttachments over the resolved urls (no url is undefined)
RECURSIVE BuildAttachments(_, _, _, _)
BuildAttachments(urls, id, stars, n) ==
    IF urls = <<>> THEN <<>>
    ELSE IF RawExt(Head(urls)) = <<>>
    THEN BuildAttachments(Tail(urls), id, stars, n)
    ELSE <<[url |-> Head(urls),
            localFile |-> LocalFile(id, stars, n, ExtOf(Head(urls)))]>>
         \o BuildAttachments(Tail(urls), id, stars, n + 1)

\* attachment.split throws a TypeError on an undefined element
BuildThrows(urls) == Undefined \in Range(urls)

-----------------------------------------------------------------------------
(* Collection Store *)

\* Message ids (snowflakes) are 64-bit integers written in decimal.  The
\* model's ids are small offsets i standing for the snowflake 2^60 + i*2^6:
\* Number() of such a string is the nearest double, whose spacing at that
\* magnitude is 2^8, i.e. Ulp offsets, ties going to the even mantissa.
Ulp == 4

\* Number(snowflake) of line 337
ToNumber(snowflake) ==
    LET q == snowflake \div Ulp
        r == snowflake % Ulp
    IN  IF 2 * r < Ulp THEN q * Ulp
        ELSE IF 2 * r > Ulp THEN (q + 1) * Ulp
        ELSE IF q % 2 = 0 THEN q * Ulp
        ELSE (q + 1) * Ulp

\* the comparator of line 337
CompareSnowflakes(a, b) == ToNumber(a.snowflake) - ToNumber(b.snowflake)

\* Array.prototype.sort is stable: an element goes after every element the
\* comparator does not put after it
RECURSIVE InsertSorted(_, _)
InsertSorted(rec, sorted) ==
    IF sorted = <<>> THEN <<rec>>
    ELSE IF CompareSnowflakes(Head(sorted), rec) <= 0
    THEN <<Head(sorted)>> \o InsertSorted(rec, Tail(sorted))
    ELSE <<rec>> \o sorted

RECURSIVE SortCollection(_)
SortCollection(records) ==
    IF records = <<>> THEN <<>>
    ELSE InsertSorted(Last(records),
                      SortCollection(SubSeq(records, 1, Len(records) - 1)))

\* JSON.stringify of one record: a property whose value is undefined is left out
StringifyRecord(rec) ==
    IF rec.textContent = Undefined
    THEN [snowflake |-> rec.snowflake, archiveId |-> rec.archiveId,
          url |-> rec.url, stars |-> rec.stars, attachments |-> rec.attachments]
    ELSE rec

\* JSON.parse of one record, read as a MessageArchive: a missing property
\* reads as undefined
ParseRecord(obj) ==
    [snowflake |-> obj.snowflake, archiveId |-> obj.archiveId, url |-> obj.url,
     stars |-> obj.stars,
     textContent |-> IF "textContent" \in DOMAIN obj THEN obj.textContent ELSE Undefined,
     attachments |-> obj.attachments]

\* the json saveMessageCollection hands to fs.writeFile (lines 336-339)
CollectionJson(map) ==
    LET collection == SortCollection(map)
    IN  [i \in 1..Len(collection) |-> StringifyRecord(collection[i])]

\* a variant that looks the key up among the archive ids
MapHasArchiveId(map, key) == \E i \in 1..Len(map) : map[i].archiveId = key

\* Map.prototype.has / Map.prototype.set: a new key goes last, a known key
\* keeps its place
MapHas(map, key) == \E i \in 1..Len(map) : map[i].snowflake = key

MapSet(map, rec) ==
    IF MapHas(map, rec.snowflake)
    THEN [i \in 1..Len(map) |->
             IF map[i].snowflake = rec.snowflake THEN rec ELSE map[i]]
    ELSE Append(map, rec)

\* the for loop of lines 50-52 over the parsed snapshot
RECURSIVE LoadCollection(_, _)
LoadCollection(map, collection) ==
    IF collection = <<>> THEN map
    ELSE LoadCollection(MapSet(map, ParseRecord(Head(collection))), Tail(collection))

Keys(map) == {map[i].snowflake : i \in 1..Len(map)}

\* the record processMessage returns (lines 324-331)
MakeRecord(message, id, text, atts) ==
    [snowflake |-> message.id, archiveId |-> id, url |-> message.url,
     stars |-> getStars(message), textContent |-> text, attachments |-> atts]

\* the states of metadata.json: absent, opened for writing and not yet
\* written (truncated), holding a json array, or holding mixed text
AbsentFile == [state |-> "absent", json |-> <<>>]
TruncatedFile == [state |-> "truncated", json |-> <<>>]
JsonFile(json) == [state |-> "json", json |-> json]
\* the texts of two overlapping writes, one over the other: no json
GarbledFile == [state |-> "garbled", json |-> <<>>]

-----------------------------------------------------------------------------
(* The data source: urls, messages and cross-references of the model *)

Url(host, path) == <<"https:", Slash, Slash>> \o host \o <<Slash>> \o path

\* a permalink 'https://discord.com/channels/<guild>/<channel>/<message>'
Permalink(channel, msg) ==
    PermalinkPrefix \o <<Slash, "guild", Slash, channel, Slash, msg>>

CdnPng == CdnPrefix \o <<Slash, "a", Dot, "png">>
MediaJpgQuery == MediaPrefix \o <<Slash, "b", Dot, "jpg", Query, "width=400">>
SitePng == Url(<<"site", Dot, "org">>, <<"c", Dot, "png">>)
SiteMp4 == Url(<<"site", Dot, "org">>, <<"d", Dot, "mp4">>)
TwimgLarge == Url(<<"pbs", Dot, "twimg", Dot, "com">>, <<"e", Dot, "jpg", Large>>)
\* ends in a dot: there is nothing after the last '.'
TrailingDot == Url(<<"site", Dot, "org">>, <<"f", Dot>>)
\* nothing but ':large' after the last '.'
DotLarge == Url(<<"site", Dot, "org">>, <<"g", Dot, Large>>)
\* no '.' in the path
NoDotPath == Url(<<"youtu", Dot, "be">>, <<"h">>)
\* a '.' in the query string
DotInQuery == Url(<<"site", Dot, "org">>, <<"i", Dot, "gif", Query, "v=1", Dot, "2">>)

Embed(description, image, video) ==
    [description |-> description, image |-> image, video |-> video]

Button(url) == [type |-> "Button", url |-> url]
SelectMenu == [type |-> "StringSelect", url |-> Null]
ActionRow(components) == [type |-> "ActionRow", components |-> components]

Message(id, bot, content, atts, embeds, components) ==
    [id |-> id, author |-> [bot |-> bot], content |-> content,
     url |-> <<"message-url", id>>,
     attachments |-> atts, embeds |-> embeds, components |-> components]

StarBody(digits) == <<Star, Bold, digits, Bold, "repost">>

\* the messages permalinks of the model point at
RefMedia ==
    Message(91, FALSE, <<"original">>, <<SiteMp4>>,
            <<Embed(Null, SitePng, Undefined)>>, <<>>)
\* a referenced message with a link button of its own
RefWithButton ==
    Message(92, FALSE, <<"original">>, <<SiteMp4>>, <<>>,
            <<ActionRow(<<Button(NoDotPath)>>)>>)
\* a referenced message that itself relays through a content-delivery button
RefRelay ==
    Message(93, TRUE, <<"relay">>, <<>>, <<>>,
            <<ActionRow(<<Button(CdnPng), Button(Permalink("c2", "m2"))>>)>>)
\* a referenced message that relays to itself
RefSelf ==
    Message(94, TRUE, <<"relay">>, <<SitePng>>, <<>>,
            <<ActionRow(<<Button(CdnPng), Button(Permalink("c1", "m1"))>>)>>)

Fetched(status, msg) == [status |-> status, msg |-> msg]

\* the channel and message ids FetchLink reads off the model's two permalinks
Link1 == << <<"c1">>, <<"m1">> >>
Link2 == << <<"c2">>, <<"m2">> >>

\* what the two permalinks of the model resolve to
Worlds ==
    {[k \in {Link1, Link2} |->
        IF k = Link1 THEN first ELSE second] :
        first \in {Fetched("ok", RefMedia), Fetched("ok", RefWithButton),
                   Fetched("ok", RefRelay), Fetched("ok", RefSelf),
                   Fetched("channelThrows", NoMessage),
                   Fetched("messageThrows", NoMessage),
                   Fetched("notText", NoMessage)},
        second \in {Fetched("ok", RefMedia), Fetched("messageThrows", NoMessage)}}

\* the worlds of the history walk: the permalink resolves, or its fetch throws
WalkWorlds ==
    {w \in Worlds : /\ w[Link1] \in {Fetched("ok", RefMedia),
                                             Fetched("messageThrows", NoMessage)}
                    /\ w[Link2] = Fetched("ok", RefMedia)}

\* the kinds of message of the walked channel
Human(id) == Message(id, FALSE, StarBody("5"), <<SitePng>>, <<>>, <<>>)
Relayed(id) ==
    Message(id, TRUE, StarBody("7"), <<SitePng>>,
            <<Embed(<<"caption">>, Undefined, Undefined)>>,
            <<ActionRow(<<Button(CdnPng), Button(Permalink("c1", "m1"))>>)>>)

Kinds == {"human", "relayed"}

OfKind(kind, id) ==
    CASE kind = "human" -> Human(id)
      [] kind = "relayed" -> Relayed(id)

\* the histories of the model: MaxMessages or fewer messages with ids 1, 2, ...
Histories ==
    {[i \in 1..n |-> OfKind(kinds[i], i)] : n \in 0..MaxMessages, kinds \in [1..MaxMessages -> Kinds]}

-----------------------------------------------------------------------------
(* The history walk (the 'ready' handler), processMessage and SIGINT *)

\* the limit of channel.messages.fetch (line 69), scaled from 100
limit == 2

\* a variant that returns the `limit` newest messages newer than `after`
FetchNewestAfter(h, after, n) ==
    LET newer == SelectSeq(h, LAMBDA m : m.id > after)
        count == IF Len(newer) < n THEN Len(newer) ELSE n
    IN  [i \in 1..count |-> newer[Len(newer) + 1 - i]]

\* channel.messages.fetch({after, limit}): the `limit` oldest messages newer
\* than `after`, newest first
FetchAfter(h, after, n) ==
    LET newer == SelectSeq(h, LAMBDA m : m.id > after)
        count == IF Len(newer) < n THEN Len(newer) ELSE n
    IN  [i \in 1..count |-> newer[count + 1 - i]]

\* a variant that leaves the page as fetched
ReversePageForgotten(page) == page

\* fetchedMessages.reverse() of line 77
ReversePage(page) == [i \in 1..Len(page) |-> page[Len(page) + 1 - i]]

\* a variant that takes the first key of the page
FirstKey(page) == IF Len(page) = 0 THEN 0 ELSE page[1].id

\* Collection.prototype.lastKey: undefined (0 here) for an empty collection
LastKey(page) == IF Len(page) = 0 THEN 0 ELSE Last(page).id

Alive == pc \notin {"exited", "crashed"}

\* uuidV4(): a value never drawn before; the records of earlier runs carry
\* the negative ones
NewUuid == uuids + 1

\* the record an earlier run left for a message
PriorRecord(message, w) ==
    MakeRecord(message, 0 - message.id, getTextContent(message),
               BuildAttachments(getAttachmentUrls(message, w, MaxHops),
                                0 - message.id, getStars(message), 0))

RecordFiles(rec) ==
    {rec.attachments[i].localFile : i \in 1..Len(rec.attachments)}
        \cup (IF rec.textContent = Undefined THEN {}
              ELSE {TextFile(rec.archiveId, rec.stars)})

StaleFile == TextFile(0, 0)

\* a snapshot an earlier run wrote for the archivable messages with ids in S
PriorSnapshot(h, w, S) ==
    CollectionJson(SelectSeq([i \in 1..Len(h) |-> PriorRecord(h[i], w)],
                             LAMBDA r : r.snowflake \in S))

Archivable(h) == {h[i].id : i \in {j \in 1..Len(h) : isStarboardMessage(h[j])}}

Idle ==
    /\ messages = <<>>
    /\ fetchedMessages = <<>>
    /\ idx = 0
    /\ cur = NoMessage
    /\ archiveId = 0
    /\ textContent = Undefined
    /\ attachmentUrls = <<>>
    /\ attachments = <<>>
    /\ attachmentNumber = 0
    /\ writes = <<>>
    /\ uuids = 0
    /\ sigints = 0
    /\ classified = <<>>
    /\ fetches = <<>>

Init ==
    /\ history \in Histories
    /\ world \in WalkWorlds
    /\ (\A i \in 1..Len(history) : history[i].components = <<>>)
           => world[Link1].status = "ok"
    /\ channelOk \in BOOLEAN
    /\ startingMessageId \in {0, 1}
    /\ \/ /\ disk = AbsentFile
          /\ files = {StaleFile}
       \/ \E S \in SUBSET Archivable(history) :
             /\ disk = JsonFile(PriorSnapshot(history, world, S))
             /\ files = UNION {RecordFiles(ParseRecord(disk.json[i])) :
                                  i \in 1..Len(disk.json)}
    /\ pc = "access"
    /\ messageId = 0
    /\ Idle

procVars == <<cur, archiveId, textContent, attachmentUrls, attachments,
              attachmentNumber>>
walkVars == <<messageId, fetchedMessages, idx, classified, fetches>>
envVars == <<history, world, channelOk, startingMessageId>>

\* lines 61-63 and 103: the channel lookup that follows the load or the reset
AfterStartup ==
    IF channelOk
    THEN pc' = "fetch" /\ messageId' = startingMessageId
    ELSE pc' = "exited" /\ messageId' = messageId

\* a variant that takes metadata.json for missing whatever is there
AccessFindsNothing ==
    /\ pc = "access"
    /\ pc' = "rm"
    /\ UNCHANGED <<envVars, disk, files, messages, walkVars, procVars, writes,
                   uuids, sigints>>

\* lines 42-47: fs.access of metadata.json
Access ==
    /\ pc = "access"
    /\ pc' = IF disk.state = "absent" THEN "rm" ELSE "readFile"
    /\ UNCHANGED <<envVars, disk, files, messages, walkVars, procVars, writes,
                   uuids, sigints>>

\* lines 48-53: readFile, JSON.parse (which throws on a file a writer has
\* truncated) and the load loop
ReadFile ==
    /\ pc = "readFile"
    /\ IF disk.state = "json"
       THEN /\ messages' = LoadCollection(messages, disk.json)
            /\ AfterStartup
       ELSE /\ pc' = "crashed"
            /\ UNCHANGED <<messages, messageId>>
    /\ UNCHANGED <<envVars, disk, files, fetchedMessages, idx, classified,
                   fetches, procVars, writes, uuids, sigints>>

\* line 56: fs.rm(outDir, {recursive: true})
RemoveOutDir ==
    /\ pc = "rm"
    /\ pc' = "mkdir"
    /\ disk' = AbsentFile
    /\ files' = {}
    /\ UNCHANGED <<envVars, messages, walkVars, procVars, writes, uuids, sigints>>

\* line 57: fs.mkdir of the downloads directory
MakeOutDir ==
    /\ pc = "mkdir"
    /\ AfterStartup
    /\ UNCHANGED <<envVars, disk, files, messages, fetchedMessages, idx,
                   classified, fetches, procVars, writes, uuids, sigints>>

\* saveMessageCollection up to its await: the json is built from the Map as
\* it is now, and the write of metadata.json starts
StartWrite(by) ==
    writes' = Append(writes, [by |-> by, json |-> CollectionJson(messages),
                              opened |-> FALSE, size |-> Len(messages),
                              done |-> FALSE])

\* lines 67-77 and 101: one page fetch; an empty page ends the walk and
\* starts the final save
FetchPage ==
    /\ pc = "fetch"
    /\ LET page == FetchAfter(history, messageId, limit)
       IN  /\ fetches' = Append(fetches, messageId)
           /\ IF Len(page) = 0
              THEN /\ pc' = "saving"
                   /\ StartWrite("ready")
                   /\ UNCHANGED <<fetchedMessages, idx>>
              ELSE /\ pc' = "page"
                   /\ fetchedMessages' = ReversePage(page)
                   /\ idx' = 1
                   /\ UNCHANGED writes
    /\ UNCHANGED <<envVars, disk, files, messages, messageId, classified,
                   procVars, uuids, sigints>>

\* a rejected page fetch is not caught: the handler's promise rejects and the
\* process dies of the unhandled rejection
FetchFails ==
    /\ pc = "fetch"
    /\ pc' = "crashed"
    /\ UNCHANGED <<envVars, disk, files, messages, walkVars, procVars, writes,
                   uuids, sigints>>

AtMessage == pc = "page" /\ idx <= Len(fetchedMessages)

\* the log entry of a message reaching line 79: its id and the cursor of the
\* fetch that returned it
Handed(message) == [id |-> message.id, after |-> messageId]

\* line 79: not a starboard message
SkipOther ==
    /\ AtMessage
    /\ ~isStarboardMessage(fetchedMessages[idx])
    /\ idx' = idx + 1
    /\ classified' = Append(classified, Handed(fetchedMessages[idx]))
    /\ UNCHANGED <<envVars, disk, files, messages, pc, messageId,
                   fetchedMessages, fetches, procVars, writes, uuids, sigints>>

\* lines 80-83: already in the Map
SkipKnown ==
    /\ AtMessage
    /\ isStarboardMessage(fetchedMessages[idx])
    /\ MapHas(messages, fetchedMessages[idx].id)
    /\ idx' = idx + 1
    /\ classified' = Append(classified, Handed(fetchedMessages[idx]))
    /\ UNCHANGED <<envVars, disk, files, messages, pc, messageId,
                   fetchedMessages, fetches, procVars, writes, uuids, sigints>>

\* a variant without the await of line 86: the Map gets the record at once
StartProcessNoAwait ==
    /\ AtMessage
    /\ isStarboardMessage(fetchedMessages[idx])
    /\ ~MapHas(messages, fetchedMessages[idx].id)
    /\ classified' = Append(classified, Handed(fetchedMessages[idx]))
    /\ cur' = fetchedMessages[idx]
    /\ archiveId' = NewUuid
    /\ uuids' = uuids + 1
    /\ textContent' = getTextContent(fetchedMessages[idx])
    /\ attachmentUrls' = <<>>
    /\ attachments' = <<>>
    /\ attachmentNumber' = 0
    /\ pc' = "saveText"
    /\ messages' = MapSet(messages, MakeRecord(fetchedMessages[idx], NewUuid,
                                               getTextContent(fetchedMessages[idx]), <<>>))
    /\ UNCHANGED <<envVars, disk, files, messageId, fetchedMessages,
                   idx, fetches, writes, sigints>>

\* lines 85-86 and 314-318: processMessage starts
StartProcess ==
    /\ AtMessage
    /\ isStarboardMessage(fetchedMessages[idx])
    /\ ~MapHas(messages, fetchedMessages[idx].id)
    /\ classified' = Append(classified, Handed(fetchedMessages[idx]))
    /\ cur' = fetchedMessages[idx]
    /\ archiveId' = NewUuid
    /\ uuids' = uuids + 1
    /\ textContent' = getTextContent(fetchedMessages[idx])
    /\ attachmentUrls' = <<>>
    /\ attachments' = <<>>
    /\ attachmentNumber' = 0
    /\ pc' = "saveText"
    /\ UNCHANGED <<envVars, disk, files, messages, messageId, fetchedMessages,
                   idx, fetches, writes, sigints>>

\* lines 278-291
saveTextContent ==
    /\ pc = "saveText"
    /\ files' = IF textContent # Undefined
                THEN files \cup {TextFile(archiveId, getStars(cur))}
                ELSE files
    /\ pc' = "getAttachments"
    /\ UNCHANGED <<envVars, disk, messages, walkVars, procVars, writes, uuids,
                   sigints>>

\* lines 250-276: a resolution that goes round a cross-reference cycle never
\* returns; an undefined url makes the loop throw
getAttachments ==
    /\ pc = "getAttachments"
    /\ LET urls == getAttachmentUrls(cur, world, MaxHops)
       IN  IF urls = Hang
           THEN /\ pc' = "hung"
                /\ UNCHANGED <<attachmentUrls, attachments>>
           ELSE /\ attachmentUrls' = urls
                /\ IF BuildThrows(urls)
                   THEN pc' = "crashed" /\ UNCHANGED attachments
                   ELSE /\ pc' = "download"
                        /\ attachments' =
                               BuildAttachments(urls, archiveId, getStars(cur), 0)
    /\ UNCHANGED <<envVars, disk, files, messages, walkVars, cur, archiveId,
                   textContent, attachmentNumber, writes, uuids, sigints>>

\* lines 298-310: one round of the download loop
downloadAttachment ==
    /\ pc = "download"
    /\ attachmentNumber < Len(attachments)
    /\ files' = files \cup {attachments[attachmentNumber + 1].localFile}
    /\ attachmentNumber' = attachmentNumber + 1
    /\ UNCHANGED <<envVars, disk, messages, pc, walkVars, cur, archiveId,
                   textContent, attachmentUrls, attachments, writes, uuids,
                   sigints>>

\* a variant that catches the rejection and goes on with the next attachment
DownloadSkipsFailure ==
    /\ pc = "download"
    /\ attachmentNumber < Len(attachments)
    /\ attachmentNumber' = attachmentNumber + 1
    /\ UNCHANGED <<envVars, disk, files, messages, pc, walkVars, cur, archiveId,
                   textContent, attachmentUrls, attachments, writes, uuids,
                   sigints>>

\* fetch, arrayBuffer or writeFile rejects: nothing catches it
DownloadFails ==
    /\ pc = "download"
    /\ attachmentNumber < Len(attachments)
    /\ pc' = "crashed"
    /\ UNCHANGED <<envVars, disk, files, messages, walkVars, procVars, writes,
                   uuids, sigints>>

\* lines 324-331 and 87: the record is returned and put in the Map
AddRecord ==
    /\ pc = "download"
    /\ attachmentNumber = Len(attachments)
    /\ messages' = MapSet(messages, MakeRecord(cur, archiveId, textContent, attachments))
    /\ idx' = idx + 1
    /\ pc' = "page"
    /\ UNCHANGED <<envVars, disk, files, messageId, fetchedMessages, classified,
                   fetches, procVars, writes, uuids, sigints>>

\* lines 93-98: the page is done; the cursor moves to its last key
NextPage ==
    /\ pc = "page"
    /\ idx > Len(fetchedMessages)
    /\ IF LastKey(fetchedMessages) = 0
       THEN /\ pc' = "saving"
            /\ StartWrite("ready")
            /\ UNCHANGED messageId
       ELSE /\ pc' = "fetch"
            /\ messageId' = LastKey(fetchedMessages)
            /\ UNCHANGED writes
    /\ UNCHANGED <<envVars, disk, files, messages, fetchedMessages, idx,
                   classified, fetches, procVars, uuids, sigints>>

\* lines 343-344: a SIGINT runs saveMessageCollection up to its await
Sigint ==
    /\ Alive
    /\ sigints < MaxSigints
    /\ sigints' = sigints + 1
    /\ StartWrite("sigint")
    /\ UNCHANGED <<envVars, disk, files, messages, pc, walkVars, procVars, uuids>>

\* fs.writeFile opens metadata.json, which truncates it; between rm and
\* mkdir there is no directory to open it in and the write rejects
WriteOpens(i) ==
    /\ Alive
    /\ ~writes[i].opened
    /\ IF pc = "mkdir"
       THEN pc' = "crashed" /\ UNCHANGED <<disk, writes>>
       ELSE /\ disk' = TruncatedFile
            /\ writes' = [writes EXCEPT ![i].opened = TRUE]
            /\ UNCHANGED pc
    /\ UNCHANGED <<envVars, files, messages, walkVars, procVars, uuids, sigints>>

\* two writes of metadata.json through two descriptors, each from offset 0:
\* the later one's text lies over the earlier one's, whose tail shows when
\* it is the longer (the Map only grows, so more records is a longer text)
Overlay(later, earlier) ==
    IF Len(later) >= Len(earlier) THEN JsonFile(later) ELSE GarbledFile

\* what metadata.json holds when write i has resolved and its caller calls
\* process.exit(0): the text of write i, or, when another write is in
\* flight, what the two leave. The other write may open the file (and
\* truncate it) after write i wrote, or, being open, may write its text
\* before or after write i does. The writes race pairwise.
ExitOutcomes(ws, i) ==
    {JsonFile(ws[i].json)}
        \cup {TruncatedFile : j \in {k \in 1..Len(ws) : k # i /\ ~ws[k].opened}}
        \cup UNION {{Overlay(ws[j].json, ws[i].json), Overlay(ws[i].json, ws[j].json)} :
                       j \in {k \in 1..Len(ws) : k # i /\ ws[k].opened}}

\* the write resolves and its caller goes on to process.exit(0) (lines 103
\* and 345)
WriteCompletes(i) ==
    /\ Alive
    /\ writes[i].opened
    /\ disk' \in ExitOutcomes(writes, i)
    /\ writes' = [writes EXCEPT ![i].done = TRUE]
    /\ pc' = "exited"
    /\ UNCHANGED <<envVars, files, messages, walkVars, procVars, uuids,
                   sigints>>

Next ==
    \/ Access
    \/ ReadFile
    \/ RemoveOutDir
    \/ MakeOutDir
    \/ FetchPage
    \/ FetchFails
    \/ SkipOther
    \/ SkipKnown
    \/ StartProcess
    \/ saveTextContent
    \/ getAttachments
    \/ downloadAttachment
    \/ DownloadFails
    \/ AddRecord
    \/ NextPage
    \/ Sigint
    \/ \E i \in 1..Len(writes) : WriteOpens(i)
    \/ \E i \in 1..Len(writes) : WriteCompletes(i)

Spec == Init /\ [][Next]_vars

-----------------------------------------------------------------------------
(* processMessage on one message of any shape *)

ProbeUrls ==
    {CdnPng, MediaJpgQuery, SitePng, TwimgLarge, TrailingDot, DotLarge,
     NoDotPath, DotInQuery}

ProbeEmbeds ==
    {Embed(Null, SitePng, Undefined),
     Embed(<<"caption">>, Undefined, SiteMp4),
     Embed(<<"note">>, MediaJpgQuery, CdnPng)}

ProbeRows ==
    {ActionRow(<<Button(NoDotPath)>>),
     ActionRow(<<Button(CdnPng), Button(Permalink("c1", "m1"))>>),
     ActionRow(<<Button(Permalink("c2", "m2")), SelectMenu, Button(Null)>>),
     ActionRow(<<Button(MediaJpgQuery)>>)}

\* the embeds a message with action rows carries: none, one with an image
\* and a video, or two with one of the two each
ProbeRowEmbeds ==
    {<<>>,
     <<Embed(<<"note">>, MediaJpgQuery, CdnPng)>>,
     <<Embed(Null, SitePng, Undefined), Embed(<<"caption">>, Undefined, SiteMp4)>>}

\* starboard messages: MaxParts or fewer attachments, or MaxParts or fewer
\* embeds, or MaxParts or fewer action rows
ProbeMessages ==
    {Message(1, TRUE, StarBody("7"), atts, <<>>, <<>>) :
        atts \in SeqUpTo(ProbeUrls, MaxParts)}
    \cup
    {Message(1, TRUE, StarBody("7"), atts, embeds, <<>>) :
        atts \in {<<>>, <<SiteMp4, SitePng>>},
        embeds \in SeqUpTo(ProbeEmbeds, MaxParts)}
    \cup
    {Message(1, TRUE, StarBody("7"), atts, embeds, rows) :
        atts \in {<<>>, <<SiteMp4, SitePng>>},
        embeds \in ProbeRowEmbeds,
        rows \in SeqUpTo(ProbeRows, MaxParts)}

\* the state in which processMessage has just started on the one message of
\* a one-message channel
InitMessage ==
    /\ cur \in ProbeMessages
    /\ world \in Worlds
    /\ (cur.components = <<>>) =>
           world = [k \in {Link1, Link2} |-> Fetched("ok", RefMedia)]
    /\ history = <<cur>>
    /\ channelOk = TRUE
    /\ startingMessageId = 0
    /\ disk = AbsentFile
    /\ files = {}
    /\ messages = <<>>
    /\ pc = "saveText"
    /\ messageId = 0
    /\ fetchedMessages = <<cur>>
    /\ idx = 1
    /\ archiveId = 1
    /\ textContent = getTextContent(cur)
    /\ attachmentUrls = <<>>
    /\ attachments = <<>>
    /\ attachmentNumber = 0
    /\ writes = <<>>
    /\ uuids = 1
    /\ sigints = 0
    /\ classified = <<[id |-> cur.id, after |-> 0]>>
    /\ fetches = <<0>>

NextMessage ==
    \/ saveTextContent
    \/ getAttachments
    \/ downloadAttachment
    \/ DownloadFails
    \/ AddRecord

SpecMessage == InitMessage /\ [][NextMessage]_vars

-----------------------------------------------------------------------------
(* Vocabulary of the properties: the tiers of the specification, read off  *)
(* a message without the resolver                                          *)

ContentDelivery(url) == StartsWith(url, CdnPrefix) \/ StartsWith(url, MediaPrefix)

MessagePermalink(url) == StartsWith(url, PermalinkPrefix)

ButtonTargets(message) ==
    Flat([i \in 1..Len(message.components) |->
            LET buttons == SelectSeq(message.components[i].components,
                               LAMBDA c : c.type = "Button" /\ c.url # Null)
            IN  [j \in 1..Len(buttons) |-> buttons[j].url]])

TierOne(message) == message.attachments

TierTwo(message) ==
    SelectSeq([i \in 1..Len(message.embeds) |-> message.embeds[i].image],
              LAMBDA u : u # Undefined)

TierThree(message) ==
    SelectSeq([i \in 1..Len(message.embeds) |-> message.embeds[i].video],
              LAMBDA u : u # Undefined)

TierFour(message) ==
    SelectSeq(ButtonTargets(message),
              LAMBDA u : ~ContentDelivery(u) /\ ~MessagePermalink(u))

MediaTiers(message) == TierOne(message) \o TierTwo(message) \o TierThree(message)

OwnTiers(message) == MediaTiers(message) \o TierFour(message)

HasDeliveryButton(message) ==
    \E i \in 1..Len(ButtonTargets(message)) : ContentDelivery(ButtonTargets(message)[i])

PermalinkTargets(message) == SelectSeq(ButtonTargets(message), MessagePermalink)

\* what the fetch of each permalink button of a message returns
Referenced(message) ==
    [i \in 1..Len(PermalinkTargets(message)) |->
        FetchLink(world, PermalinkTargets(message)[i])]

AllFetched(message) ==
    \A i \in 1..Len(Referenced(message)) : Referenced(message)[i].status = "ok"

SomeFetchFails(message) ==
    \E i \in 1..Len(Referenced(message)) :
        Referenced(message)[i].status \in {"channelThrows", "messageThrows"}

\* getAttachmentUrls has returned for the message in hand
Returned == pc \in {"download", "page", "crashed"}

\* what follows the media tiers in the resolved list
AfterMedia ==
    SubSeq(attachmentUrls, Len(MediaTiers(cur)) + 1, Len(attachmentUrls))

\* what follows the message's own four tiers in the resolved list
AfterOwn ==
    SubSeq(attachmentUrls, Len(OwnTiers(cur)) + 1, Len(attachmentUrls))

-----------------------------------------------------------------------------
(* C6: second-tier resolution is one hop deep: for a message with a        *)
(* content-delivery button whose permalinks all resolve, the list is the   *)
(* message's own tiers followed, per permalink, by the referenced          *)
(* message's tiers 1-3 only; the referenced message's link buttons are not *)
(* included and its permalinks are not followed.                           *)
C6_OneHopDeep ==
    (/\ pc \in {"download", "page", "crashed", "hung"}
     /\ HasDeliveryButton(cur)
     /\ AllFetched(cur))
    => /\ pc # "hung"
       /\ attachmentUrls =
              OwnTiers(cur)
                  \o Flat([i \in 1..Len(Referenced(cur)) |->
                              MediaTiers(Referenced(cur)[i].msg)])

-----------------------------------------------------------------------------
(* C7: when the fetch of a channel or message a message cross-references   *)
(* throws, the message's second tier is empty, nothing is propagated (the  *)
(* resolution returns, and only a download can still fail), and the record *)
(* added carries the attachments of tiers 1-4.                             *)
C7_FailedFetchDegrades ==
    (HasDeliveryButton(cur) /\ SomeFetchFails(cur))
    => /\ pc # "hung"
       /\ Returned =>
             /\ attachmentUrls = OwnTiers(cur)
             /\ attachments = BuildAttachments(OwnTiers(cur), archiveId, getStars(cur), 0)
       /\ pc = "crashed" => attachmentNumber < Len(attachments)
       /\ pc = "page" =>
             messages = <<MakeRecord(cur, archiveId, textContent, attachments)>>

\* a record was added for a message one of whose two cross-references threw
C7_Witness ==
    /\ pc = "page"
    /\ HasDeliveryButton(cur)
    /\ SomeFetchFails(cur)
    /\ \E i \in 1..Len(Referenced(cur)) : Referenced(cur)[i].status = "ok"
    /\ MediaTiers(cur) # <<>>
    /\ MapHas(messages, cur.id)

-----------------------------------------------------------------------------
(* C8: the resolved list is the direct attachments, the embed images, the  *)
(* embed videos, the kept link-button urls and then the cross-referenced   *)
(* attachments in link order, nothing else and in that order.              *)
C8_TierOrder ==
    Returned =>
        /\ StartsWith(attachmentUrls, OwnTiers(cur))
        /\ (~HasDeliveryButton(cur) \/ SomeFetchFails(cur)) => AfterOwn = <<>>
        /\ (HasDeliveryButton(cur) /\ AllFetched(cur)) =>
              AfterOwn = Flat([i \in 1..Len(Referenced(cur)) |->
                                  getAttachmentUrls(Referenced(cur)[i].msg, world, MaxHops)])

\* a resolved list in which each of the five tiers has an entry
C8_Witness ==
    /\ pc = "download"
    /\ TierOne(cur) # <<>>
    /\ TierTwo(cur) # <<>>
    /\ TierThree(cur) # <<>>
    /\ TierFour(cur) # <<>>
    /\ AfterOwn # <<>>
    /\ Len(attachmentUrls) > Len(OwnTiers(cur)) + 1

-----------------------------------------------------------------------------
(* C9: tier 4 holds exactly the button targets that are neither            *)
(* content-delivery urls nor message permalinks, and the second tier is    *)
(* resolved if and only if some button target is a content-delivery url.   *)
SecondTierSeen == pc = "hung" \/ Len(AfterMedia) > Len(TierFour(cur))

C9_TierFourAndTrigger ==
    (Returned \/ pc = "hung") =>
        /\ Returned => StartsWith(AfterMedia, TierFour(cur))
        /\ (/\ Returned
            /\ \/ PermalinkTargets(cur) = <<>>
               \/ ~HasDeliveryButton(cur)
               \/ SomeFetchFails(cur))
           => AfterMedia = TierFour(cur)
        /\ SecondTierSeen => HasDeliveryButton(cur)
        /\ (/\ HasDeliveryButton(cur)
            /\ AllFetched(cur)
            /\ \E i \in 1..Len(Referenced(cur)) :
                   MediaTiers(Referenced(cur)[i].msg) # <<>>)
           => SecondTierSeen

\* a message whose only media is behind a content-delivery button: tier 4
\* is empty and the list is what the linked message carries
C9_Witness ==
    /\ pc = "download"
    /\ MediaTiers(cur) = <<>>
    /\ TierFour(cur) = <<>>
    /\ HasDeliveryButton(cur)
    /\ PermalinkTargets(cur) # <<>>
    /\ attachmentUrls # <<>>

-----------------------------------------------------------------------------
(* C10: a url with no file extension in its path is left out of the        *)
(* record's attachments; the kept ones are numbered 0, 1, ... in           *)
(* resolution order and each carries the non-empty extension of the url's  *)
(* path, its query string and a trailing ':large' removed.                 *)

\* the extension of the file a url's path names: what follows the last '.'
\* of the last path segment, without ':large'; empty when there is none
FileExtension(url) ==
    LET path == Split(url, Query)[1]
        segment == Last(Split(path, Slash))
        pieces == Split(segment, Dot)
        ext == Last(pieces)
    IN  IF Len(pieces) = 1 THEN <<>>
        ELSE IF Len(ext) > 0 /\ Last(ext) = Large
        THEN SubSeq(ext, 1, Len(ext) - 1)
        ELSE ext

RECURSIVE KeptAttachments(_, _, _, _)
KeptAttachments(urls, id, stars, n) ==
    IF urls = <<>> THEN <<>>
    ELSE IF FileExtension(Head(urls)) = <<>>
    THEN KeptAttachments(Tail(urls), id, stars, n)
    ELSE <<[url |-> Head(urls),
            localFile |-> LocalFile(id, stars, n, FileExtension(Head(urls)))]>>
         \o KeptAttachments(Tail(urls), id, stars, n + 1)

C10_ExtensionSkip ==
    (Returned /\ Undefined \notin Range(attachmentUrls))
    => attachments = KeptAttachments(attachmentUrls, archiveId, getStars(cur), 0)

-----------------------------------------------------------------------------
(* Vocabulary of the properties of the walk *)

\* processMessage is working on cur
InProcess == pc \in {"saveText", "getAttachments", "download", "hung"}

MessageOf(id) == CHOOSE m \in Range(history) : m.id = id

StrictlyIncreasing(s) == \A i, j \in 1..Len(s) : i < j => s[i] < s[j]

\* the files a record names: its text file, if it has text, and one file
\* per attachment
FilesOf(rec) ==
    {rec.attachments[i].localFile : i \in 1..Len(rec.attachments)}
        \cup (IF rec.textContent = Undefined THEN {}
              ELSE {TextFile(rec.archiveId, rec.stars)})

-----------------------------------------------------------------------------
(* C1: the Collection never holds two records for one sourceId; when the   *)
(* walk is at an archivable message whose id is a key, nothing is          *)
(* processed, no file is written and the Collection stays as it is; and    *)
(* once every archivable message is a key, nothing is added any more.      *)
C1_DedupSkip ==
    /\ [](Cardinality(Keys(messages)) = Len(messages))
    /\ [][(/\ AtMessage
           /\ isStarboardMessage(fetchedMessages[idx])
           /\ fetchedMessages[idx].id \in Keys(messages))
          => (/\ messages' = messages
              /\ files' = files
              /\ uuids' = uuids
              /\ pc' # "saveText")]_vars
    /\ [][(Archivable(history) \subseteq Keys(messages))
          => (messages' = messages /\ uuids' = uuids)]_vars

\* the walk has gone past an archivable message and left the record a
\* former run made for it
C1_Witness ==
    /\ pc = "page"
    /\ idx > 1
    /\ isStarboardMessage(fetchedMessages[idx - 1])
    /\ \E i \in 1..Len(messages) :
          /\ messages[i].snowflake = fetchedMessages[idx - 1].id
          /\ messages[i].archiveId < 0
    /\ uuids > 0

-----------------------------------------------------------------------------
(* C2: the snapshot a SIGINT handler writes holds exactly the records that *)
(* were in the Collection when the signal came, none for the message in    *)
(* process, in ascending order of the ids as integers.                     *)
C2_InterruptSnapshot ==
    \A i \in 1..Len(writes) :
        writes[i].by = "sigint" =>
            /\ Len(writes[i].json) = writes[i].size
            /\ \A j \in 1..Len(writes[i].json) :
                  /\ writes[i].json[j].snowflake \in Keys(messages)
                  /\ InProcess => writes[i].json[j].snowflake # cur.id
            /\ StrictlyIncreasing([j \in 1..Len(writes[i].json) |->
                                      writes[i].json[j].snowflake])

-----------------------------------------------------------------------------
(* C3: every record of the Collection is complete, its text file and each  *)
(* of its attachments written, and the message in process is no key.       *)
C3_OnlyCompletedRecords ==
    /\ \A i \in 1..Len(messages) : FilesOf(messages[i]) \subseteq files
    /\ InProcess => cur.id \notin Keys(messages)
    /\ (pc = "crashed" /\ attachmentNumber < Len(attachments))
           => cur.id \notin Keys(messages)

\* a record made in this run, with text and two or more attachments, is in
\* the Collection while the next message is in process
C3_Witness ==
    /\ InProcess
    /\ \E i \in 1..Len(messages) :
          /\ messages[i].archiveId > 0
          /\ messages[i].textContent # Undefined
          /\ Len(messages[i].attachments) >= 2

-----------------------------------------------------------------------------
(* C4: the messages reach the classifier in strictly increasing order of   *)
(* id, each newer than the cursor of the fetch that returned it, and one   *)
(* is taken up only when the one before was skipped or its record added.   *)
C4_ChronologicalOneAtATime ==
    /\ StrictlyIncreasing([i \in 1..Len(classified) |-> classified[i].id])
    /\ \A i \in 1..Len(classified) : classified[i].id > classified[i].after
    /\ \A i \in 1..(Len(classified) - 1) :
          \/ ~isStarboardMessage(MessageOf(classified[i].id))
          \/ classified[i].id \in Keys(messages)
    /\ InProcess => cur.id = classified[Len(classified)].id

\* three messages of two pages have reached the classifier
C4_Witness ==
    /\ Len(classified) = 3
    /\ classified[1].after # classified[3].after
    /\ classified[1].after = classified[2].after
    /\ pc = "page"

-----------------------------------------------------------------------------
(* C5: after a page the cursor is the id of its newest message, so the     *)
(* cursors of the fetches strictly increase and there are at most one more *)
(* than messages, which bounds the walk; the walk stops and the final save *)
(* starts exactly when a fetch returns nothing.                            *)
C5_CursorAdvances ==
    /\ StrictlyIncreasing(fetches)
    /\ Len(fetches) <= Len(history) + 1
    /\ (pc = "fetch" /\ fetches # <<>>) =>
          /\ fetchedMessages # <<>>
          /\ \A i \in 1..Len(fetchedMessages) : fetchedMessages[i].id <= messageId
          /\ \E i \in 1..Len(fetchedMessages) : fetchedMessages[i].id = messageId
    /\ pc = "page" => fetchedMessages # <<>>
    /\ (\E i \in 1..Len(writes) : writes[i].by = "ready")
          <=> (/\ fetches # <<>>
               /\ Last(fetches) = messageId
               /\ \A i \in 1..Len(history) : history[i].id <= messageId)
    /\ pc = "saving" => \E i \in 1..Len(writes) : writes[i].by = "ready"

\* the walk of a three-message channel has fetched twice and the third
\* fetch returned nothing
C5_Witness ==
    /\ pc = "saving"
    /\ Len(fetches) = 3
    /\ Len(history) = 3

-----------------------------------------------------------------------------
(* Vocabulary of the properties of the snapshot *)

SnowflakesOf(json) == [i \in 1..Len(json) |-> json[i].snowflake]

\* the records of a Map, as a set
RecordsOf(map) == {map[i] : i \in 1..Len(map)}

-----------------------------------------------------------------------------
(* C11: what a flush of the Collection writes holds every record, in       *)
(* ascending order of the ids as integers; once a flush has opened the     *)
(* snapshot nothing of the former snapshot is left in it; and loading what *)
(* the flush writes gives the same keys with the same field values.        *)
C11_SnapshotRoundTrip ==
    LET json == CollectionJson(messages)
        loaded == LoadCollection(<<>>, json)
    IN  /\ Len(json) = Len(messages)
        /\ StrictlyIncreasing(SnowflakesOf(json))
        /\ Keys(loaded) = Keys(messages)
        /\ RecordsOf(loaded) = RecordsOf(messages)
        /\ (disk.state = "json" /\ \E i \in 1..Len(writes) : writes[i].opened)
              => \E i \in 1..Len(writes) : disk.json = writes[i].json

-----------------------------------------------------------------------------
(* The classifier on a page of messages of any body and author *)

\* bodies with and without the star glyph, the bold markers and the integer
ProbeBodies ==
    {StarBody("7"),
     <<Star, Bold, "5", Bold>>,
     <<Star, Bold, "text", Bold>>,
     <<Star, Bold>>,
     <<Star, "7">>,
     <<"seen", Star, Bold, "5", Bold>>,
     <<"hello">>}

\* the state in which the first page of a channel has just been fetched
\* and reversed
InitClassify ==
    /\ \E n \in 1..MaxParts :
          \E bodies \in [1..n -> ProbeBodies], bots \in [1..n -> BOOLEAN] :
              history = [i \in 1..n |->
                            Message(i, bots[i], bodies[i], <<SitePng>>, <<>>, <<>>)]
    /\ world = [k \in {Link1, Link2} |-> Fetched("ok", RefMedia)]
    /\ channelOk = TRUE
    /\ startingMessageId = 0
    /\ disk = AbsentFile
    /\ files = {}
    /\ messages = <<>>
    /\ pc = "page"
    /\ messageId = 0
    /\ fetchedMessages = history
    /\ idx = 1
    /\ cur = NoMessage
    /\ archiveId = 0
    /\ textContent = Undefined
    /\ attachmentUrls = <<>>
    /\ attachments = <<>>
    /\ attachmentNumber = 0
    /\ writes = <<>>
    /\ uuids = 0
    /\ sigints = 0
    /\ classified = <<>>
    /\ fetches = <<0>>

NextClassify ==
    \/ SkipOther
    \/ StartProcess
    \/ saveTextContent
    \/ getAttachments
    \/ downloadAttachment
    \/ AddRecord

SpecClassify == InitClassify /\ [][NextClassify]_vars

\* the archivable messages of the specification: the body starts with the
\* star glyph and the bold integer, and the author is automated
IsArchivable(message) ==
    /\ message.author.bot
    /\ Len(message.content) >= 4
    /\ message.content[1] = Star
    /\ message.content[2] = Bold
    /\ message.content[3] \in {"0", "5", "7"}
    /\ message.content[4] = Bold

(* C12: of the messages the walk has gone past, those archived are exactly *)
(* those whose body starts with the star glyph and a bold integer and      *)
(* whose author is automated: a bot message with the glyph and the bold    *)
(* markers but no integer is not archived, and a human's message is not.   *)
C12_ArchivableIff ==
    \A i \in 1..Len(fetchedMessages) :
        i < idx =>
            (MapHas(messages, fetchedMessages[i].id)
                <=> IsArchivable(fetchedMessages[i]))

-----------------------------------------------------------------------------
(* C13: flushes with no add between them build the same snapshot, and when *)
(* two or more flushes were started and the process exits after one of     *)
(* them resolved, metadata.json holds the whole Collection, in ascending   *)
(* order of the ids.                                                       *)
C13_FlushRepeatable ==
    /\ \A i, j \in 1..Len(writes) :
          writes[i].size = writes[j].size => writes[i].json = writes[j].json
    /\ (/\ pc = "exited"
        /\ Len(writes) >= 2
        /\ \E i \in 1..Len(writes) : writes[i].done)
       => /\ disk.state = "json"
          /\ {disk.json[i].snowflake : i \in 1..Len(disk.json)} = Keys(messages)
          /\ StrictlyIncreasing(SnowflakesOf(disk.json))

-----------------------------------------------------------------------------
(* C14: for one message the text file is written before any download, the  *)
(* attachments are downloaded one after another in list order, and when    *)
(* the download of one fails, none of the later ones is downloaded and no  *)
(* record of the message is added.                                         *)

\* the files of the first n attachments of the message in process
Downloaded(n) == {attachments[i].localFile : i \in 1..n}

C14_TextThenSequentialDownloads ==
    /\ pc \in {"saveText", "getAttachments"} => attachmentNumber = 0
    /\ pc = "saveText" => files = {}
    /\ pc # "saveText" =>
          /\ textContent # Undefined => TextFile(archiveId, getStars(cur)) \in files
          /\ files \ {TextFile(archiveId, getStars(cur))} = Downloaded(attachmentNumber)
    /\ pc = "crashed" =>
          /\ messages = <<>>
          /\ \A i \in (attachmentNumber + 1)..Len(attachments) :
                attachments[i].localFile \notin files
    /\ pc = "page" => attachmentNumber = Len(attachments)

\* the second download of a message with text and three or more kept
\* attachments failed
C14_Witness ==
    /\ pc = "crashed"
    /\ attachmentNumber = 1
    /\ Len(attachments) >= 3
    /\ textContent # Undefined
    /\ Cardinality(files) = 2

-----------------------------------------------------------------------------
(* C15: at startup, when metadata.json exists the Collection gets exactly  *)
(* the records of the snapshot and the files of the output area stay as    *)
(* they are; when it does not exist the Collection stays empty and the     *)
(* output area is removed and made anew, empty, before the walk begins.    *)

\* a step of the ready handler itself from the place `at` (no signal, no
\* write of metadata.json moves in it) that does not die
StartupStep(at) ==
    /\ pc = at
    /\ pc' \notin {at, "crashed"}
    /\ writes' = writes

\* the records a snapshot holds, as the Map has them after the load
SnapshotRecords(json) == [i \in 1..Len(json) |-> ParseRecord(json[i])]

C15_LoadOrReset ==
    /\ [](pc \in {"access", "readFile", "rm", "mkdir"} => messages = <<>>)
    /\ [][StartupStep("access") =>
             /\ pc' = IF disk.state = "absent" THEN "rm" ELSE "readFile"
             /\ disk' = disk /\ files' = files]_vars
    /\ [][StartupStep("readFile") =>
             /\ pc' \in {"fetch", "exited"}
             /\ messages' = SnapshotRecords(disk.json)
             /\ Keys(messages') = {disk.json[i].snowflake : i \in 1..Len(disk.json)}
             /\ files' = files
             /\ files = UNION {FilesOf(messages'[i]) : i \in 1..Len(messages')}
             /\ disk' = disk]_vars
    /\ [][StartupStep("rm") => pc' = "mkdir"]_vars
    /\ [][StartupStep("mkdir") =>
             /\ pc' \in {"fetch", "exited"}
             /\ messages' = <<>>
             /\ files' = {}
             /\ disk' = AbsentFile]_vars
    /\ [](fetches # <<>> => StaleFile \notin files)

\* the walk is about to begin with the two records of a snapshot loaded and
\* their files in place
C15_Witness ==
    /\ pc = "fetch"
    /\ fetches = <<>>
    /\ Len(messages) = 2
    /\ disk = JsonFile(CollectionJson(messages))
    /\ files = UNION {FilesOf(messages[i]) : i \in 1..Len(messages)}
    /\ files # {}

-----------------------------------------------------------------------------
(* C16: when a run that got a SIGINT has ended, metadata.json still holds  *)
(* a record for every message the snapshot held before the run started.    *)

\* the ids of the records of the snapshot the run started with: an earlier
\* run left their files, named after its (negative) archive ids, and no
\* run with a snapshot removes a file
PersistedBefore == {0 - f.archiveId : f \in {g \in files : g.archiveId < 0}}

C16_InterruptKeepsSnapshot ==
    (pc \in {"exited", "crashed"} /\ sigints > 0)
    => /\ disk.state = "json"
       /\ PersistedBefore \subseteq {disk.json[i].snowflake : i \in 1..Len(disk.json)}

-----------------------------------------------------------------------------
(* C17: when a run that got no signal has walked the channel and exited,   *)
(* the Collection holds the records loaded at startup, unchanged, and one  *)
(* new record for every archivable message newer than the starting id that *)
(* was not loaded, no message twice, and metadata.json holds exactly these *)
(* records; a fresh run that finds no such message leaves '[]'.            *)
C17_CompleteRun ==
    (pc = "exited" /\ sigints = 0 /\ channelOk)
    => /\ Keys(messages) =
              PersistedBefore
                  \cup {id \in Archivable(history) : id > startingMessageId}
       /\ Cardinality(Keys(messages)) = Len(messages)
       /\ \A i \in 1..Len(messages) :
             IF messages[i].snowflake \in PersistedBefore
             THEN messages[i] = PriorRecord(MessageOf(messages[i].snowflake), world)
             ELSE /\ messages[i].archiveId > 0
                  /\ messages[i].snowflake > startingMessageId
       /\ disk.state = "json"
       /\ Len(disk.json) = Len(messages)
       /\ RecordsOf(SnapshotRecords(disk.json)) = RecordsOf(messages)

\* a run over three messages in two pages has exited with one record
\* loaded and two made
C17_Witness ==
    /\ pc = "exited"
    /\ sigints = 0
    /\ Len(history) = 3
    /\ Len(fetches) = 3
    /\ Cardinality(PersistedBefore) = 1
    /\ Len(messages) = 3
    /\ Len(disk.json) = 3

-----------------------------------------------------------------------------
(* The cross-reference fetches of one resolution *)

RECURSIVE SumSeq(_)
SumSeq(ns) == IF ns = <<>> THEN 0 ELSE Head(ns) + SumSeq(Tail(ns))

\* how many permalinks getAdvancedAttachments fetches while resolving a
\* message whose resolution returns: those of the message, when it has a
\* content-delivery button, and, when all of them resolve, those the
\* resolution of each fetched message fetches in turn
RECURSIVE CrossFetches(_, _, _)
CrossFetches(message, w, depth) ==
    LET messageLinks == MessageLinks(message)
        fetched == [i \in 1..Len(messageLinks) |-> FetchLink(w, messageLinks[i])]
    IN  IF ~\E i \in 1..Len(ButtonLinks(message)) : IsCdn(ButtonLinks(message)[i])
        THEN 0
        ELSE IF depth = 0
        THEN Len(messageLinks)
        ELSE IF \E i \in 1..Len(fetched) :
                   fetched[i].status \in {"channelThrows", "messageThrows"}
        THEN Len(messageLinks)
        ELSE Len(messageLinks)
                 + SumSeq([i \in 1..Len(fetched) |->
                              IF fetched[i].status = "ok"
                              THEN CrossFetches(fetched[i].msg, w, depth - 1)
                              ELSE 0])

-----------------------------------------------------------------------------
(* C18: the resolution of a message's attachments always returns, also     *)
(* when messages with content-delivery buttons reference each other or     *)
(* themselves, and it fetches no more cross-referenced messages than the   *)
(* message has permalink buttons.                                          *)
C18_ResolutionTerminates ==
    /\ pc # "hung"
    /\ Returned => CrossFetches(cur, world, MaxHops) <= Len(PermalinkTargets(cur))

-----------------------------------------------------------------------------
(* C19: every element of the resolved list is a url: a permalink whose     *)
(* channel is no text channel adds nothing to the list, and processing the *)
(* message does not die deriving the extensions (the only failure left is  *)
(* that of a download).                                                    *)
C19_OnlyUrls ==
    /\ Undefined \notin Range(attachmentUrls)
    /\ pc = "crashed" => attachmentNumber < Len(attachments)

-----------------------------------------------------------------------------
(* C20: when the process has ended, by completion, by a SIGINT or by a     *)
(* failed page fetch or download, metadata.json holds every record the run *)
(* added to the Collection.                                                *)
C20_AddedRecordsPersisted ==
    pc \in {"exited", "crashed"}
    => \A i \in 1..Len(messages) :
          messages[i].archiveId > 0
              => /\ disk.state = "json"
                 /\ \E j \in 1..Len(disk.json) : ParseRecord(disk.json[j]) = messages[i]

=============================================================================
